---- MODULE Spec2Model ----
(***************************************************************************)
(* Model of the data-logging endpoints of app.py: five POST handlers that  *)
(* project JSON payloads onto fixed column orders and write them to three  *)
(* worksheets (TrialData, BlockData, TaskData) of one shared spreadsheet.  *)
(* Every gspread call is one atomic step of the handler that issues it;    *)
(* handlers of concurrent requests interleave between those calls.         *)
(***************************************************************************)
EXTENDS Integers, Sequences, FiniteSets, TLC

(***************************************************************************)
(* Bounds of the model.                                                    *)
(***************************************************************************)
\* requests received in one behaviour
MaxRequests == 2
\* store calls that fail in one behaviour
MaxFaults == 2
\* the latest reading of the server clock, in seconds
MaxClock == 0
\* the largest column number given to col_to_letter on its own
MaxCol == 702
\* the largest row number given to the cell range on its own
MaxRow == 3

(***************************************************************************)
(* JSON values.  A value is a pair <<type, text>>: a JSON string or a JSON *)
(* number, with the text Python's str() gives for it.                      *)
(***************************************************************************)
S(s) == <<"str", s>>
N(s) == <<"num", s>>

\* str(v) of Python
str(v) == v[2]

\* Python truthiness of a JSON value: "" and 0 are falsy
Truthy(v) == IF v[1] = "str" THEN v[2] # "" ELSE v[2] # "0"

\* the default of data_dict.get(col, "")
EmptyStr == S("")

\* dict.get(key, default) on a mapping represented as a function
Get(d, key, default) == IF key \in DOMAIN d THEN d[key] ELSE default

\* d[key] = v on a mapping (adds the key when absent)
Put(d, key, v) == [k \in (DOMAIN d) \cup {key} |-> IF k = key THEN v ELSE d[k]]

\* the empty mapping {}
EmptyDict == [k \in {} |-> EmptyStr]

(***************************************************************************)
(* Sheet names and column orders.                                          *)
(***************************************************************************)
TRIAL_SHEET_NAME == "TrialData"
BLOCK_SHEET_NAME == "BlockData"
TASK_SHEET_NAME == "TaskData"

SheetNames == {TRIAL_SHEET_NAME, BLOCK_SHEET_NAME, TASK_SHEET_NAME}

TRIAL_COLUMNS ==
  << "sub_id", "timestamp", "block_number", "block_type", "trial_number",
     "trial_type", "valid_win", "valid_lose", "invalid_win", "invalid_lose",
     "sel_img1", "sel_img2", "sel_img3", "sel_img4", "left_image",
     "right_image", "left_right_flip", "reward_received", "trial_start",
     "trial_duration", "pair_type", "selected_side", "correct_side",
     "fixation_start_time", "fixation_end_time", "fixation_duration",
     "stimulus_start_time", "stimulus_end_time", "stimulus_duration",
     "feedback_start_time", "feedback_end_time", "feedback_duration" >>

BLOCK_COLUMNS ==
  << "sub_id", "block_number", "block_type", "n_trials", "p_img1", "p_img2",
     "p_img3", "p_img4", "reward_count", "learner_status",
     "avg_reaction_duration", "std_reaction_duration",
     "avg_fixation_duration", "std_fixation_duration",
     "avg_stimulus_duration", "std_stimulus_duration",
     "avg_feedback_duration", "std_feedback_duration",
     "est_correct_reversed", "est_wrong_reversed",
     "est_correct_non_reversed", "est_wrong_non_reversed",
     "selected_left_count", "selected_right_count", "selected_left_percent" >>

TASK_COLUMNS ==
  << "sub_id", "timestamp", "total_blocks", "learning_blocks",
     "reversal_blocks", "highest_reward_block", "learner_status",
     "total_rewards", "learning_rewards", "reversal_rewards",
     "fourth_learning_block_present",
     "avg_reaction_duration_learning", "std_reaction_duration_learning",
     "avg_reaction_duration_reversal", "std_reaction_duration_reversal",
     "avg_reaction_duration_total", "std_reaction_duration_total",
     "avg_fixation_duration_learning", "std_fixation_duration_learning",
     "avg_fixation_duration_reversal", "std_fixation_duration_reversal",
     "avg_fixation_duration_total", "std_fixation_duration_total",
     "avg_stimulus_duration_learning", "std_stimulus_duration_learning",
     "avg_stimulus_duration_reversal", "std_stimulus_duration_reversal",
     "avg_stimulus_duration_total", "std_stimulus_duration_total",
     "avg_feedback_duration_learning", "std_feedback_duration_learning",
     "avg_feedback_duration_reversal", "std_feedback_duration_reversal",
     "avg_feedback_duration_total", "std_feedback_duration_total",
     "selected_left_count", "selected_right_count", "selected_left_percent",
     "version", "isFinished" >>

\* the column order each handler uses for a sheet
ColumnsOf(sheet_name) ==
  IF sheet_name = TRIAL_SHEET_NAME THEN TRIAL_COLUMNS
  ELSE IF sheet_name = BLOCK_SHEET_NAME THEN BLOCK_COLUMNS
  ELSE TASK_COLUMNS

(***************************************************************************)
(* Pure helpers of the handlers.                                           *)
(***************************************************************************)
\* the projection as it would be with "for col in columns_order if col in
\* data_dict": absent columns are left out, the row is short
row_vals_of_present_only(data_dict, columns_order) ==
  LET present == SelectSeq(columns_order, LAMBDA col : col \in DOMAIN data_dict)
  IN  [i \in 1..Len(present) |-> data_dict[present[i]]]

\* the projection as it would be with "data_dict.get(col) or ''": falsy
\* values are replaced by the empty string
row_vals_of_or_empty(data_dict, columns_order) ==
  [i \in 1..Len(columns_order) |->
     IF columns_order[i] \in DOMAIN data_dict /\ Truthy(data_dict[columns_order[i]])
       THEN data_dict[columns_order[i]]
       ELSE EmptyStr]

\* [data_dict.get(col, "") for col in columns_order]
row_vals_of(data_dict, columns_order) ==
  [i \in 1..Len(columns_order) |-> Get(data_dict, columns_order[i], EmptyStr)]

\* the guard of the timestamp injection:
\* "timestamp" not in data or not data["timestamp"]
NeedsTimestamp(data) ==
  \/ "timestamp" \notin DOMAIN data
  \/ ~Truthy(data["timestamp"])

\* the injection as it would be without its guard
InjectTimestamp_always(data, stamp) == Put(data, "timestamp", stamp)

\* if <guard>: data["timestamp"] = server_timestamp_iso()
InjectTimestamp(data, stamp) ==
  IF NeedsTimestamp(data) THEN Put(data, "timestamp", stamp) ELSE data

Letters ==
  << "A", "B", "C", "D", "E", "F", "G", "H", "I", "J", "K", "L", "M",
     "N", "O", "P", "Q", "R", "S", "T", "U", "V", "W", "X", "Y", "Z" >>

\* col_to_letter: repeated divmod(col - 1, 26), letters prepended
RECURSIVE col_to_letter_acc(_, _)
col_to_letter_acc(col, result) ==
  IF col > 0
    THEN col_to_letter_acc((col - 1) \div 26,
                           Letters[((col - 1) % 26) + 1] \o result)
    ELSE result

\* col_to_letter as it would be with divmod(col, 26): zero-based digits
RECURSIVE col_to_letter_zero_based_acc(_, _)
col_to_letter_zero_based_acc(col, result) ==
  IF col > 0
    THEN col_to_letter_zero_based_acc(col \div 26, Letters[(col % 26) + 1] \o result)
    ELSE result

col_to_letter_zero_based(col) == col_to_letter_zero_based_acc(col, "")

col_to_letter(col) == col_to_letter_acc(col, "")

\* f"A{existing_row}:{end_col_letter}{existing_row}" as its four parts
cell_range_of(existing_row) ==
  [first_col |-> "A", first_row |-> existing_row,
   last_col |-> col_to_letter(Len(TASK_COLUMNS)), last_row |-> existing_row]

(***************************************************************************)
(* The worksheet calls of gspread, on a worksheet held as the sequence of  *)
(* its rows.                                                               *)
(***************************************************************************)
\* ws.find as it would be if the search skipped row 1 as a header row
ws_find_below_header(ws, query) ==
  IF \E r \in 2..Len(ws) : str(ws[r][1]) = query
    THEN CHOOSE r \in 2..Len(ws) :
           /\ str(ws[r][1]) = query
           /\ \A q \in 2..(r - 1) : str(ws[q][1]) # query
    ELSE 0

\* ws.find as it would be if it returned the last matching cell
ws_find_last_match(ws, query) ==
  IF \E r \in 1..Len(ws) : str(ws[r][1]) = query
    THEN CHOOSE r \in 1..Len(ws) :
           /\ str(ws[r][1]) = query
           /\ \A q \in (r + 1)..Len(ws) : str(ws[q][1]) # query
    ELSE 0

\* ws.find(query, in_column=1): the row number of the first row whose first
\* cell reads as query; 0 stands for "no cell" (None / CellNotFound)
ws_find(ws, query) ==
  IF \E r \in 1..Len(ws) : str(ws[r][1]) = query
    THEN CHOOSE r \in 1..Len(ws) :
           /\ str(ws[r][1]) = query
           /\ \A q \in 1..(r - 1) : str(ws[q][1]) # query
    ELSE 0

\* ws.append_row as it would be if it inserted the row above the first row
ws_append_row_at_top(ws, vals) == << vals >> \o ws

\* ws.append_row as it would be if it wrote over the last row
ws_append_row_over_last(ws, vals) ==
  IF ws = << >> THEN << vals >> ELSE [ws EXCEPT ![Len(ws)] = vals]

\* ws.append_row(row_vals, ...): one row after the last row
ws_append_row(ws, vals) == Append(ws, vals)

\* ws.append_rows as it would be if it wrote the rows from row 1 down
ws_append_rows_from_top(ws, new_rows) ==
  new_rows \o SubSeq(ws, Len(new_rows) + 1, Len(ws))

\* ws.append_rows(rows, ...): all rows, in order, after the last row
ws_append_rows(ws, new_rows) == ws \o new_rows

\* ws.update as it would be if empty values left their cells untouched
ws_update_skip_empty(ws, range, vals) ==
  [ws EXCEPT ![range.first_row] =
     [c \in 1..Len(@) |->
        IF c <= Len(vals) /\ vals[c] # S("") THEN vals[c] ELSE @[c]]]

\* ws.update("A{r}:{end}{r}", [row_vals], ...): the cells of row r, from
\* column A to column end, take the submitted values
ws_update(ws, range, vals) ==
  [ws EXCEPT ![range.first_row] =
     [c \in 1..Len(@) |-> IF c <= Len(vals) THEN vals[c] ELSE @[c]]]

\* datetime.utcnow().isoformat(timespec="seconds") + "Z" at clock reading t
Digits == << "0", "1", "2", "3", "4", "5", "6", "7", "8", "9" >>

server_timestamp_iso(t) == S("2026-01-01T00:00:0" \o Digits[t + 1] \o "Z")

\* str(e) of the exception a failed store call raises
ErrMsg == "APIError"

(***************************************************************************)
(* Requests the clients send.                                              *)
(***************************************************************************)
TrialPayloads ==
  { [sub_id |-> S("S1"), timestamp |-> S("2025-05-05T10:00:00Z"),
     trial_number |-> N("1")],
    [sub_id |-> S("S1"), trial_number |-> N("2"), timestamp |-> S(""),
     debug |-> S("x")] }

TrialLists ==
  { << >>,
    << [sub_id |-> S("S1"), trial_number |-> N("1")] >>,
    << [sub_id |-> S("S1"), trial_number |-> N("1"),
        timestamp |-> S("2025-05-05T10:00:00Z")],
       [sub_id |-> S("S1"), trial_number |-> N("2"), debug |-> S("x")] >> }

BlockPayloads ==
  { EmptyDict,
    [sub_id |-> S("S1"), block_number |-> N("1"), debug |-> S("x"),
     timestamp |-> S("2025-05-05T10:00:00Z")] }

\* bodies of /log_trials_bulk
BulkPayloads == { [trials |-> t] : t \in TrialLists }

TaskPayloads ==
  { [sub_id |-> S("S1"), total_blocks |-> N("3"), debug |-> S("x")],
    [sub_id |-> S("S1"), timestamp |-> S("2025-05-05T10:00:00Z"),
     isFinished |-> S("yes")],
    [sub_id |-> N("7"), total_blocks |-> N("1")],
    [total_blocks |-> N("2"), timestamp |-> S("")] }

\* bodies of /log_block_complete: any of the three parts may be empty
CompletePayloads ==
  { [trials |-> t, block |-> b, task |-> k] :
      t \in {x \in TrialLists : Len(x) <= 1},
      b \in BlockPayloads,
      k \in {EmptyDict} \cup {x \in TaskPayloads : "debug" \in DOMAIN x} }

\* contents of TaskData when the server starts: one row per subject
OldTaskRow(sub) ==
  row_vals_of([sub_id |-> sub, timestamp |-> S("2025-01-01T00:00:00Z"),
               total_blocks |-> N("9"), version |-> S("v1")], TASK_COLUMNS)

InitialTaskData ==
  { << >>, << OldTaskRow(S("S1")) >>, << OldTaskRow(S("S2")), OldTaskRow(S("7")) >> }

\* the row a second upsert of an earlier session appended for a subject that
\* already had one, when the two upserts raced
RacedTaskRow(sub) ==
  row_vals_of([sub_id |-> sub, timestamp |-> S("2025-01-01T00:00:01Z"),
               total_blocks |-> N("8"), version |-> S("v2")], TASK_COLUMNS)

\* contents of TaskData when the server starts after such a race: some
\* subject has two rows
DuplicatedTaskData ==
  { << OldTaskRow(S("S1")), RacedTaskRow(S("S1")) >>,
    << OldTaskRow(S("S2")), OldTaskRow(S("S1")), RacedTaskRow(S("S1")) >> }

(***************************************************************************)
(* State.                                                                  *)
(***************************************************************************)
VARIABLES
  SPREADSHEET,    \* sheet name -> rows of the worksheet
  pc,             \* worker -> the store call its handler issues next
  endpoint,       \* worker -> route of the request it serves
  data,           \* worker -> data of log_trial, log_block, log_task
  trials,         \* worker -> trials of log_trials_bulk, log_block_complete
  block_data,     \* worker -> block_data of log_block_complete
  task_data,      \* worker -> task_data of log_block_complete
  rows,           \* worker -> rows built from trials
  existing_row,   \* worker -> existing_row of the task upsert (0 is None)
  row_vals,       \* worker -> row_vals of the task upsert
  errors,         \* worker -> errors of log_block_complete
  response,       \* worker -> the response returned
  calls,          \* worker -> store calls issued for the current request
  nreq,           \* requests received so far
  faults,         \* store calls that failed so far
  overlap,        \* some task upsert located while another was in progress
  request,        \* worker -> the JSON body of the request, as received
  proj_in,        \* a field mapping given to the row projection
  proj_cols,      \* the column order given to the row projection
  proj_out,       \* the row the projection returned
  num_cols,       \* a column number given to col_to_letter
  end_col_letter, \* the letters col_to_letter returned
  range_row,      \* a row number given to the cell range
  cell_range,     \* the cell range built for that row
  seq_body,       \* a {trials, block, task} body served both ways
  seq_ran,        \* which of the two ways has been served
  seq_combined,   \* the worksheets after log_block_complete served it
  seq_separate    \* the worksheets after the three endpoints served it

vars ==
  << SPREADSHEET, pc, endpoint, data, trials, block_data, task_data,
     rows, existing_row, row_vals, errors, response, calls, nreq, faults,
     overlap, request, proj_in, proj_cols, proj_out,
     num_cols, end_col_letter, range_row, cell_range,
     seq_body, seq_ran, seq_combined, seq_separate >>

\* the variables of the projection on its own
projVars == << proj_in, proj_cols, proj_out >>

\* the variables of the column letters and the cell range on their own
colVars == << num_cols, end_col_letter, range_row, cell_range >>

\* the variables of the comparison of log_block_complete with the three
\* endpoints it combines
seqVars == << seq_body, seq_ran, seq_combined, seq_separate >>

\* the handler threads that serve requests at the same time
Workers == {1, 2}

\* what the server clock may read when a handler asks for the time
ClockReadings == 0..MaxClock

NoResponse == [status |-> "none", http |-> 0]

\* no cell range has been built
NoRange == [first_col |-> "", first_row |-> 0, last_col |-> "", last_row |-> 0]

\* the server has started: the worksheets hold earlier sessions' rows, no
\* request is being served
ServerStart(task_tables) ==
  /\ \E t \in task_tables :
       SPREADSHEET = [n \in SheetNames |-> IF n = TASK_SHEET_NAME THEN t ELSE << >>]
  /\ pc = [p \in Workers |-> "idle"]
  /\ endpoint = [p \in Workers |-> "none"]
  /\ data = [p \in Workers |-> EmptyDict]
  /\ trials = [p \in Workers |-> << >>]
  /\ block_data = [p \in Workers |-> EmptyDict]
  /\ task_data = [p \in Workers |-> EmptyDict]
  /\ rows = [p \in Workers |-> << >>]
  /\ existing_row = [p \in Workers |-> 0]
  /\ row_vals = [p \in Workers |-> << >>]
  /\ errors = [p \in Workers |-> << >>]
  /\ response = [p \in Workers |-> NoResponse]
  /\ calls = [p \in Workers |-> << >>]
  /\ nreq = 0
  /\ faults = 0
  /\ overlap = FALSE
  /\ request = [p \in Workers |-> EmptyDict]

ServerInit == ServerStart(InitialTaskData)

\* the projection is not exercised on its own
ProjIdle ==
  /\ proj_in = EmptyDict
  /\ proj_cols = << >>
  /\ proj_out = << >>

\* the column letters and the cell range are not exercised on their own
ColIdle ==
  /\ num_cols = 0
  /\ end_col_letter = ""
  /\ range_row = 0
  /\ cell_range = NoRange

\* no body is served both ways
SeqIdle ==
  /\ seq_body = EmptyDict
  /\ seq_ran = {}
  /\ seq_combined = [n \in SheetNames |-> << >>]
  /\ seq_separate = [n \in SheetNames |-> << >>]

Init ==
  /\ ServerInit
  /\ ProjIdle
  /\ ColIdle
  /\ SeqIdle

\* a store call either returns (ok) or raises; at most MaxFaults raise
Outcome(ok) == (ok \/ faults < MaxFaults) /\ faults' = IF ok THEN faults ELSE faults + 1

\* the record of one store call: the worksheet, the gspread method, the
\* range or query it addresses, the rows it submits, whether it returned
Call(sheet, op, at, sent, ok) ==
  [sheet |-> sheet, op |-> op, at |-> at, rows |-> sent, ok |-> ok]

\* ws = SPREADSHEET.worksheet(sheet_name)
WorksheetCall(sheet, ok) == Call(sheet, "worksheet", "", << >>, ok)

\* the calls that submit rows
WriteOps == {"append_row", "append_rows", "update"}

\* a request arrives at a worker that serves none: the locals of its
\* handler are fresh
Receive(p, route, body) ==
  /\ pc[p] \in {"idle", "done"}
  /\ nreq < MaxRequests
  /\ nreq' = nreq + 1
  /\ endpoint' = [endpoint EXCEPT ![p] = route]
  /\ request' = [request EXCEPT ![p] = body]
  /\ calls' = [calls EXCEPT ![p] = << >>]
  /\ rows' = [rows EXCEPT ![p] = << >>]
  /\ existing_row' = [existing_row EXCEPT ![p] = 0]
  /\ row_vals' = [row_vals EXCEPT ![p] = << >>]

\* the locals of the new request's handler that it does not set at once
FreshLocals(p, set) ==
  /\ "data" \in set \/ data' = [data EXCEPT ![p] = EmptyDict]
  /\ "trials" \in set \/ trials' = [trials EXCEPT ![p] = << >>]
  /\ block_data' = [block_data EXCEPT ![p] = EmptyDict]
  /\ task_data' = [task_data EXCEPT ![p] = EmptyDict]
  /\ errors' = [errors EXCEPT ![p] = << >>]
  /\ response' = [response EXCEPT ![p] = NoResponse]

\* the error return as it would be without its ", 500": Flask answers 200
ErrorResponse_default_http == [status |-> "error", message |-> ErrMsg, http |-> 200]

\* jsonify({"status": "error", "message": str(e)}), 500
ErrorResponse == [status |-> "error", message |-> ErrMsg, http |-> 500]

(***************************************************************************)
(* append_row(sheet_name, data_dict, columns_order): the worksheet lookup  *)
(* and the append of the projected row.  Either call may raise; then no    *)
(* row is written.  lookup_ok and append_ok are the outcomes of the calls. *)
(***************************************************************************)
append_row(p, sheet_name, data_dict, columns_order, lookup_ok, append_ok) ==
  /\ Outcome(lookup_ok /\ append_ok)
  /\ lookup_ok \/ append_ok
  /\ SPREADSHEET' =
       IF lookup_ok /\ append_ok
         THEN [SPREADSHEET EXCEPT ![sheet_name] =
                 ws_append_row(@, row_vals_of(data_dict, columns_order))]
         ELSE SPREADSHEET
  /\ calls' =
       IF lookup_ok
         THEN [calls EXCEPT ![p] =
                 @ \o << WorksheetCall(sheet_name, TRUE),
                         Call(sheet_name, "append_row", "",
                              << row_vals_of(data_dict, columns_order) >>,
                              append_ok) >>]
         ELSE [calls EXCEPT ![p] = Append(@, WorksheetCall(sheet_name, FALSE))]

(***************************************************************************)
(* /log_trial                                                              *)
(***************************************************************************)
LogTrialBegin(p) ==
  /\ \E body \in TrialPayloads, now \in ClockReadings :
       /\ Receive(p, "log_trial", body)
       /\ data' = [data EXCEPT ![p] = InjectTimestamp(body, server_timestamp_iso(now))]
  /\ FreshLocals(p, {"data"})
  /\ pc' = [pc EXCEPT ![p] = "trial_append_row"]
  /\ UNCHANGED << SPREADSHEET, faults, overlap >>
  /\ UNCHANGED << projVars, colVars, seqVars >>

LogTrialAppend(p) ==
  /\ pc[p] = "trial_append_row"
  /\ \E lookup_ok, append_ok \in BOOLEAN :
       /\ append_row(p, TRIAL_SHEET_NAME, data[p], TRIAL_COLUMNS, lookup_ok, append_ok)
       /\ response' = [response EXCEPT ![p] =
            IF lookup_ok /\ append_ok THEN [status |-> "ok", http |-> 200]
            ELSE ErrorResponse]
  /\ pc' = [pc EXCEPT ![p] = "done"]
  /\ UNCHANGED << endpoint, data, trials, block_data, task_data, rows,
                  existing_row, row_vals, errors, nreq, overlap >>
  /\ UNCHANGED << request, projVars, colVars, seqVars >>

(***************************************************************************)
(* /log_block                                                              *)
(***************************************************************************)
LogBlockBegin(p) ==
  /\ \E body \in BlockPayloads :
       /\ Receive(p, "log_block", body)
       /\ data' = [data EXCEPT ![p] = body]
  /\ FreshLocals(p, {"data"})
  /\ pc' = [pc EXCEPT ![p] = "block_append_row"]
  /\ UNCHANGED << SPREADSHEET, faults, overlap >>
  /\ UNCHANGED << projVars, colVars, seqVars >>

LogBlockAppend(p) ==
  /\ pc[p] = "block_append_row"
  /\ \E lookup_ok, append_ok \in BOOLEAN :
       /\ append_row(p, BLOCK_SHEET_NAME, data[p], BLOCK_COLUMNS, lookup_ok, append_ok)
       /\ response' = [response EXCEPT ![p] =
            IF lookup_ok /\ append_ok THEN [status |-> "ok", http |-> 200]
            ELSE ErrorResponse]
  /\ pc' = [pc EXCEPT ![p] = "done"]
  /\ UNCHANGED << endpoint, data, trials, block_data, task_data, rows,
                  existing_row, row_vals, errors, nreq, overlap >>
  /\ UNCHANGED << request, projVars, colVars, seqVars >>

(***************************************************************************)
(* /log_trials_bulk                                                        *)
(***************************************************************************)
\* the loop as it would be if it put each row in front of the list
trial_rows_reversed(trial_list, stamp) ==
  [i \in 1..Len(trial_list) |->
     row_vals_of(InjectTimestamp(trial_list[Len(trial_list) + 1 - i], stamp),
                 TRIAL_COLUMNS)]

\* the loop over trials: stamp each trial that needs it, project it
trial_rows(trial_list, stamp) ==
  [i \in 1..Len(trial_list) |->
     row_vals_of(InjectTimestamp(trial_list[i], stamp), TRIAL_COLUMNS)]

\* jsonify({"status": "ok", "rows_added": len(rows)})
BulkOk(built) == [status |-> "ok", rows_added |-> Len(built), http |-> 200]

LogTrialsBulkBegin(p) ==
  /\ \E body \in BulkPayloads :
       /\ Receive(p, "log_trials_bulk", body)
       /\ trials' = [trials EXCEPT ![p] = Get(body, "trials", << >>)]
  /\ FreshLocals(p, {"trials"})
  /\ pc' = [pc EXCEPT ![p] = "bulk_worksheet"]
  /\ UNCHANGED << SPREADSHEET, faults, overlap >>
  /\ UNCHANGED << projVars, colVars, seqVars >>

\* ws = SPREADSHEET.worksheet(TRIAL_SHEET_NAME), then the loop, then "if rows"
LogTrialsBulkWorksheet(p) ==
  /\ pc[p] = "bulk_worksheet"
  /\ \E ok \in BOOLEAN, now \in ClockReadings :
       /\ Outcome(ok)
       /\ calls' = [calls EXCEPT ![p] = Append(@, WorksheetCall(TRIAL_SHEET_NAME, ok))]
       /\ IF ~ok
            THEN /\ response' = [response EXCEPT ![p] = ErrorResponse]
                 /\ pc' = [pc EXCEPT ![p] = "done"]
                 /\ rows' = rows
            ELSE LET built == trial_rows(trials[p], server_timestamp_iso(now))
                 IN  /\ rows' = [rows EXCEPT ![p] = built]
                     /\ IF built # << >>
                          THEN /\ pc' = [pc EXCEPT ![p] = "bulk_append_rows"]
                               /\ response' = response
                          ELSE /\ pc' = [pc EXCEPT ![p] = "done"]
                               /\ response' = [response EXCEPT ![p] = BulkOk(built)]
  /\ UNCHANGED << SPREADSHEET, endpoint, data, trials, block_data,
                  task_data, existing_row, row_vals, errors, nreq,
                  overlap >>
  /\ UNCHANGED << request, projVars, colVars, seqVars >>

\* ws.append_rows(rows, value_input_option="USER_ENTERED")
LogTrialsBulkAppend(p) ==
  /\ pc[p] = "bulk_append_rows"
  /\ \E ok \in BOOLEAN :
       /\ Outcome(ok)
       /\ SPREADSHEET' =
            IF ok THEN [SPREADSHEET EXCEPT ![TRIAL_SHEET_NAME] = ws_append_rows(@, rows[p])]
            ELSE SPREADSHEET
       /\ calls' = [calls EXCEPT ![p] =
            Append(@, Call(TRIAL_SHEET_NAME, "append_rows", "", rows[p], ok))]
       /\ response' = [response EXCEPT ![p] =
            IF ok THEN BulkOk(rows[p]) ELSE ErrorResponse]
  /\ pc' = [pc EXCEPT ![p] = "done"]
  /\ UNCHANGED << endpoint, data, trials, block_data, task_data, rows,
                  existing_row, row_vals, errors, nreq, overlap >>
  /\ UNCHANGED << request, projVars, colVars, seqVars >>

(***************************************************************************)
(* /log_task                                                               *)
(***************************************************************************)
\* some other worker has located its row and not yet written
UpsertInProgress(p) ==
  \E q \in Workers \ {p} : pc[q] \in {"task_write", "bc_task_write"}

\* the write of the upsert: ws.update on existing_row, else ws.append_row
UpsertWrite(p, ok) ==
  /\ SPREADSHEET' =
       IF ~ok THEN SPREADSHEET
       ELSE IF existing_row[p] # 0
         THEN [SPREADSHEET EXCEPT ![TASK_SHEET_NAME] =
                 ws_update(@, cell_range_of(existing_row[p]), row_vals[p])]
         ELSE [SPREADSHEET EXCEPT ![TASK_SHEET_NAME] = ws_append_row(@, row_vals[p])]
  /\ calls' = [calls EXCEPT ![p] =
       Append(@, IF existing_row[p] # 0
                   THEN Call(TASK_SHEET_NAME, "update",
                             cell_range_of(existing_row[p]), << row_vals[p] >>, ok)
                   ELSE Call(TASK_SHEET_NAME, "append_row", "", << row_vals[p] >>, ok))]

LogTaskBegin(p) ==
  /\ \E body \in TaskPayloads, now \in ClockReadings :
       /\ Receive(p, "log_task", body)
       /\ data' = [data EXCEPT ![p] = InjectTimestamp(body, server_timestamp_iso(now))]
  /\ FreshLocals(p, {"data"})
  /\ pc' = [pc EXCEPT ![p] = "task_worksheet"]
  /\ UNCHANGED << SPREADSHEET, faults, overlap >>
  /\ UNCHANGED << projVars, colVars, seqVars >>

\* ws = SPREADSHEET.worksheet(TASK_SHEET_NAME)
LogTaskWorksheet(p) ==
  /\ pc[p] = "task_worksheet"
  /\ \E ok \in BOOLEAN :
       /\ Outcome(ok)
       /\ calls' = [calls EXCEPT ![p] = Append(@, WorksheetCall(TASK_SHEET_NAME, ok))]
       /\ IF ok
            THEN /\ pc' = [pc EXCEPT ![p] = "task_find"]
                 /\ response' = response
            ELSE /\ pc' = [pc EXCEPT ![p] = "done"]
                 /\ response' = [response EXCEPT ![p] = ErrorResponse]
  /\ UNCHANGED << SPREADSHEET, endpoint, data, trials, block_data,
                  task_data, rows, existing_row, row_vals, errors, nreq, overlap >>
  /\ UNCHANGED << request, projVars, colVars, seqVars >>

\* the locate step as it would be if "except CellNotFound" were a bare
\* "except": any fault of the search counts as "no existing row"
LogTaskFind_any_fault_is_not_found(p) ==
  /\ pc[p] = "task_find"
  /\ \E ok \in BOOLEAN :
       /\ Outcome(ok)
       /\ calls' = [calls EXCEPT ![p] = Append(@, Call(TASK_SHEET_NAME, "find",
                            str(Get(data[p], "sub_id", EmptyStr)), << >>, ok))]
       /\ existing_row' = [existing_row EXCEPT ![p] =
            IF ok THEN ws_find(SPREADSHEET[TASK_SHEET_NAME],
                               str(Get(data[p], "sub_id", EmptyStr)))
            ELSE 0]
       /\ row_vals' = [row_vals EXCEPT ![p] = row_vals_of(data[p], TASK_COLUMNS)]
       /\ pc' = [pc EXCEPT ![p] = "task_write"]
       /\ response' = response
       /\ overlap' = (overlap \/ UpsertInProgress(p))
  /\ UNCHANGED << SPREADSHEET, endpoint, data, trials, block_data,
                  task_data, rows, errors, nreq >>
  /\ UNCHANGED << request, projVars, colVars, seqVars >>

\* cell = ws.find(str(sub_id), in_column=1), then row_vals
LogTaskFind(p) ==
  /\ pc[p] = "task_find"
  /\ \E ok \in BOOLEAN :
       /\ Outcome(ok)
       /\ calls' = [calls EXCEPT ![p] = Append(@, Call(TASK_SHEET_NAME, "find",
                            str(Get(data[p], "sub_id", EmptyStr)), << >>, ok))]
       /\ IF ok
            THEN /\ existing_row' = [existing_row EXCEPT ![p] =
                      ws_find(SPREADSHEET[TASK_SHEET_NAME],
                              str(Get(data[p], "sub_id", EmptyStr)))]
                 /\ row_vals' = [row_vals EXCEPT ![p] = row_vals_of(data[p], TASK_COLUMNS)]
                 /\ pc' = [pc EXCEPT ![p] = "task_write"]
                 /\ response' = response
                 /\ overlap' = (overlap \/ UpsertInProgress(p))
            ELSE /\ pc' = [pc EXCEPT ![p] = "done"]
                 /\ response' = [response EXCEPT ![p] = ErrorResponse]
                 /\ UNCHANGED << existing_row, row_vals, overlap >>
  /\ UNCHANGED << SPREADSHEET, endpoint, data, trials, block_data,
                  task_data, rows, errors, nreq >>
  /\ UNCHANGED << request, projVars, colVars, seqVars >>

\* the write step as it would be if a write that raised were tried again
LogTaskWrite_retries(p) ==
  /\ pc[p] = "task_write"
  /\ \E ok \in BOOLEAN :
       /\ Outcome(ok)
       /\ UpsertWrite(p, ok)
       /\ response' = [response EXCEPT ![p] =
            IF ok THEN [status |-> "ok", http |-> 200] ELSE NoResponse]
       /\ pc' = [pc EXCEPT ![p] = IF ok THEN "done" ELSE "task_write"]
  /\ UNCHANGED << endpoint, data, trials, block_data, task_data, rows,
                  existing_row, row_vals, errors, nreq, overlap >>
  /\ UNCHANGED << request, projVars, colVars, seqVars >>

\* ws.update(cell_range, [row_vals], ...) or ws.append_row(row_vals, ...)
LogTaskWrite(p) ==
  /\ pc[p] = "task_write"
  /\ \E ok \in BOOLEAN :
       /\ Outcome(ok)
       /\ UpsertWrite(p, ok)
       /\ response' = [response EXCEPT ![p] =
            IF ok THEN [status |-> "ok", http |-> 200] ELSE ErrorResponse]
  /\ pc' = [pc EXCEPT ![p] = "done"]
  /\ UNCHANGED << endpoint, data, trials, block_data, task_data, rows,
                  existing_row, row_vals, errors, nreq, overlap >>
  /\ UNCHANGED << request, projVars, colVars, seqVars >>

(***************************************************************************)
(* /log_block_complete: the trials, block and task parts, each in its own  *)
(* try block that appends "<part>: <message>" to errors when it raises.    *)
(***************************************************************************)
\* the return statements as they would be if one error were tolerated
CompleteResponse_tolerates_one(errs, trial_list) ==
  IF Len(errs) > 1
    THEN [status |-> "partial_error", errors |-> errs, http |-> 500]
    ELSE [status |-> "ok", trials_added |-> Len(trial_list), http |-> 200]

\* the return statements: partial_error when errors is non-empty, else ok
CompleteResponse(errs, trial_list) ==
  IF errs # << >>
    THEN [status |-> "partial_error", errors |-> errs, http |-> 500]
    ELSE [status |-> "ok", trials_added |-> Len(trial_list), http |-> 200]

\* part 3 as it would be if an earlier error made the handler return
EnterTaskPart_unless_errors(p, errs, trial_list, task, now) ==
  /\ errors' = [errors EXCEPT ![p] = errs]
  /\ IF DOMAIN task # {} /\ errs = << >>
       THEN /\ task_data' = [task_data EXCEPT ![p] =
                 InjectTimestamp(task, server_timestamp_iso(now))]
            /\ pc' = [pc EXCEPT ![p] = "bc_task_worksheet"]
            /\ response' = [response EXCEPT ![p] = NoResponse]
       ELSE /\ task_data' = [task_data EXCEPT ![p] = task]
            /\ pc' = [pc EXCEPT ![p] = "done"]
            /\ response' = [response EXCEPT ![p] = CompleteResponse(errs, trial_list)]

\* part 3 starts: "if task_data" stamps the task and looks the worksheet up,
\* otherwise the handler returns
EnterTaskPart(p, errs, trial_list, task, now) ==
  /\ errors' = [errors EXCEPT ![p] = errs]
  /\ IF DOMAIN task # {}
       THEN /\ task_data' = [task_data EXCEPT ![p] =
                 InjectTimestamp(task, server_timestamp_iso(now))]
            /\ pc' = [pc EXCEPT ![p] = "bc_task_worksheet"]
            /\ response' = [response EXCEPT ![p] = NoResponse]
       ELSE /\ task_data' = [task_data EXCEPT ![p] = task]
            /\ pc' = [pc EXCEPT ![p] = "done"]
            /\ response' = [response EXCEPT ![p] = CompleteResponse(errs, trial_list)]

\* part 2 starts: "if block_data" appends the block row
EnterBlockPart(p, errs, trial_list, block, task, now) ==
  IF DOMAIN block # {}
    THEN /\ errors' = [errors EXCEPT ![p] = errs]
         /\ task_data' = [task_data EXCEPT ![p] = task]
         /\ pc' = [pc EXCEPT ![p] = "bc_block_append_row"]
         /\ response' = [response EXCEPT ![p] = NoResponse]
    ELSE EnterTaskPart(p, errs, trial_list, task, now)

LogBlockCompleteBegin(p) ==
  /\ \E body \in CompletePayloads, now \in ClockReadings :
       LET trial_list == Get(body, "trials", << >>)
           block == Get(body, "block", EmptyDict)
           task == Get(body, "task", EmptyDict)
       IN  /\ Receive(p, "log_block_complete", body)
           /\ trials' = [trials EXCEPT ![p] = trial_list]
           /\ block_data' = [block_data EXCEPT ![p] = block]
           /\ IF trial_list # << >>
                THEN /\ pc' = [pc EXCEPT ![p] = "bc_trials_worksheet"]
                     /\ task_data' = [task_data EXCEPT ![p] = task]
                     /\ errors' = [errors EXCEPT ![p] = << >>]
                     /\ response' = [response EXCEPT ![p] = NoResponse]
                ELSE EnterBlockPart(p, << >>, trial_list, block, task, now)
  /\ data' = [data EXCEPT ![p] = EmptyDict]
  /\ UNCHANGED << SPREADSHEET, faults, overlap >>
  /\ UNCHANGED << projVars, colVars, seqVars >>

\* part 1: ws = SPREADSHEET.worksheet(TRIAL_SHEET_NAME), then the loop
LogBlockCompleteTrialsWorksheet(p) ==
  /\ pc[p] = "bc_trials_worksheet"
  /\ \E ok \in BOOLEAN, now \in ClockReadings :
       /\ Outcome(ok)
       /\ calls' = [calls EXCEPT ![p] = Append(@, WorksheetCall(TRIAL_SHEET_NAME, ok))]
       /\ IF ok
            THEN /\ rows' = [rows EXCEPT ![p] =
                      trial_rows(trials[p], server_timestamp_iso(now))]
                 /\ pc' = [pc EXCEPT ![p] = "bc_trials_append_rows"]
                 /\ UNCHANGED << errors, task_data, response >>
            ELSE /\ rows' = rows
                 /\ EnterBlockPart(p, Append(errors[p], "trials: " \o ErrMsg),
                                   trials[p], block_data[p], task_data[p], now)
  /\ UNCHANGED << SPREADSHEET, endpoint, data, trials, block_data,
                  existing_row, row_vals, nreq, overlap >>
  /\ UNCHANGED << request, projVars, colVars, seqVars >>

\* part 1: ws.append_rows(rows, ...)
LogBlockCompleteTrialsAppend(p) ==
  /\ pc[p] = "bc_trials_append_rows"
  /\ \E ok \in BOOLEAN, now \in ClockReadings :
       /\ Outcome(ok)
       /\ SPREADSHEET' =
            IF ok THEN [SPREADSHEET EXCEPT ![TRIAL_SHEET_NAME] = ws_append_rows(@, rows[p])]
            ELSE SPREADSHEET
       /\ calls' = [calls EXCEPT ![p] =
            Append(@, Call(TRIAL_SHEET_NAME, "append_rows", "", rows[p], ok))]
       /\ EnterBlockPart(p, IF ok THEN errors[p]
                            ELSE Append(errors[p], "trials: " \o ErrMsg),
                         trials[p], block_data[p], task_data[p], now)
  /\ UNCHANGED << endpoint, data, trials, block_data, rows,
                  existing_row, row_vals, nreq, overlap >>
  /\ UNCHANGED << request, projVars, colVars, seqVars >>

\* part 2: append_row(BLOCK_SHEET_NAME, block_data, BLOCK_COLUMNS)
LogBlockCompleteBlockAppend(p) ==
  /\ pc[p] = "bc_block_append_row"
  /\ \E lookup_ok, append_ok \in BOOLEAN, now \in ClockReadings :
       /\ append_row(p, BLOCK_SHEET_NAME, block_data[p], BLOCK_COLUMNS,
                     lookup_ok, append_ok)
       /\ EnterTaskPart(p, IF lookup_ok /\ append_ok THEN errors[p]
                           ELSE Append(errors[p], "block: " \o ErrMsg),
                        trials[p], task_data[p], now)
  /\ UNCHANGED << endpoint, data, trials, block_data, rows,
                  existing_row, row_vals, nreq, overlap >>
  /\ UNCHANGED << request, projVars, colVars, seqVars >>

\* part 3: ws = SPREADSHEET.worksheet(TASK_SHEET_NAME)
LogBlockCompleteTaskWorksheet(p) ==
  /\ pc[p] = "bc_task_worksheet"
  /\ \E ok \in BOOLEAN :
       /\ Outcome(ok)
       /\ calls' = [calls EXCEPT ![p] = Append(@, WorksheetCall(TASK_SHEET_NAME, ok))]
       /\ IF ok
            THEN /\ pc' = [pc EXCEPT ![p] = "bc_task_find"]
                 /\ UNCHANGED << errors, response >>
            ELSE /\ pc' = [pc EXCEPT ![p] = "done"]
                 /\ errors' = [errors EXCEPT ![p] = Append(@, "task: " \o ErrMsg)]
                 /\ response' = [response EXCEPT ![p] =
                      CompleteResponse(errors'[p], trials[p])]
  /\ UNCHANGED << SPREADSHEET, endpoint, data, trials, block_data,
                  task_data, rows, existing_row, row_vals, nreq,
                  overlap >>
  /\ UNCHANGED << request, projVars, colVars, seqVars >>

\* part 3: cell = ws.find(str(sub_id), in_column=1), then row_vals
LogBlockCompleteTaskFind(p) ==
  /\ pc[p] = "bc_task_find"
  /\ \E ok \in BOOLEAN :
       /\ Outcome(ok)
       /\ calls' = [calls EXCEPT ![p] = Append(@, Call(TASK_SHEET_NAME, "find",
                            str(Get(task_data[p], "sub_id", EmptyStr)), << >>, ok))]
       /\ IF ok
            THEN /\ existing_row' = [existing_row EXCEPT ![p] =
                      ws_find(SPREADSHEET[TASK_SHEET_NAME],
                              str(Get(task_data[p], "sub_id", EmptyStr)))]
                 /\ row_vals' = [row_vals EXCEPT ![p] =
                      row_vals_of(task_data[p], TASK_COLUMNS)]
                 /\ pc' = [pc EXCEPT ![p] = "bc_task_write"]
                 /\ overlap' = (overlap \/ UpsertInProgress(p))
                 /\ UNCHANGED << errors, response >>
            ELSE /\ pc' = [pc EXCEPT ![p] = "done"]
                 /\ errors' = [errors EXCEPT ![p] = Append(@, "task: " \o ErrMsg)]
                 /\ response' = [response EXCEPT ![p] =
                      CompleteResponse(errors'[p], trials[p])]
                 /\ UNCHANGED << existing_row, row_vals, overlap >>
  /\ UNCHANGED << SPREADSHEET, endpoint, data, trials, block_data,
                  task_data, rows, nreq >>
  /\ UNCHANGED << request, projVars, colVars, seqVars >>

\* part 3: ws.update(cell_range, [row_vals], ...) or ws.append_row(row_vals, ...)
LogBlockCompleteTaskWrite(p) ==
  /\ pc[p] = "bc_task_write"
  /\ \E ok \in BOOLEAN :
       /\ Outcome(ok)
       /\ UpsertWrite(p, ok)
       /\ errors' = [errors EXCEPT ![p] =
            IF ok THEN @ ELSE Append(@, "task: " \o ErrMsg)]
       /\ response' = [response EXCEPT ![p] = CompleteResponse(errors'[p], trials[p])]
  /\ pc' = [pc EXCEPT ![p] = "done"]
  /\ UNCHANGED << endpoint, data, trials, block_data, task_data, rows,
                  existing_row, row_vals, nreq, overlap >>
  /\ UNCHANGED << request, projVars, colVars, seqVars >>

(***************************************************************************)
(* The server: requests arrive at idle workers and their handlers advance  *)
(* one store call at a time, in any interleaving.                          *)
(***************************************************************************)
Next ==
  \/ \E p \in Workers :
       \/ LogTrialBegin(p)
       \/ LogTrialAppend(p)
       \/ LogTrialsBulkBegin(p)
       \/ LogTrialsBulkWorksheet(p)
       \/ LogTrialsBulkAppend(p)
       \/ LogBlockBegin(p)
       \/ LogBlockAppend(p)
       \/ LogTaskBegin(p)
       \/ LogTaskWorksheet(p)
       \/ LogTaskFind(p)
       \/ LogTaskWrite(p)
       \/ LogBlockCompleteBegin(p)
       \/ LogBlockCompleteTrialsWorksheet(p)
       \/ LogBlockCompleteTrialsAppend(p)
       \/ LogBlockCompleteBlockAppend(p)
       \/ LogBlockCompleteTaskWorksheet(p)
       \/ LogBlockCompleteTaskFind(p)
       \/ LogBlockCompleteTaskWrite(p)

Spec == Init /\ [][Next]_vars

\* the same server, started on a TaskData in which a race of an earlier
\* session has left a subject with two rows
DupInit ==
  /\ ServerStart(DuplicatedTaskData)
  /\ ProjIdle
  /\ ColIdle
  /\ SeqIdle

DupSpec == DupInit /\ [][Next]_vars

TypeOK ==
  /\ \A n \in SheetNames : \A r \in 1..Len(SPREADSHEET[n]) :
       Len(SPREADSHEET[n][r]) = Len(ColumnsOf(n))
  /\ nreq \in 0..MaxRequests
  /\ faults \in 0..MaxFaults

(***************************************************************************)
(* The row projection on its own: any field mapping over a few keys, any   *)
(* of the three column orders.                                             *)
(***************************************************************************)
ProjKeys == {"sub_id", "timestamp", "selected_left_percent", "isFinished", "debug"}

ProjValues == {S(""), S("a"), N("0")}

ProjMappings == UNION {[keys -> ProjValues] : keys \in SUBSET ProjKeys}

ProjInit ==
  /\ ServerInit
  /\ proj_in \in ProjMappings
  /\ proj_cols \in {TRIAL_COLUMNS, BLOCK_COLUMNS, TASK_COLUMNS}
  /\ proj_out = << >>
  /\ SPREADSHEET[TASK_SHEET_NAME] = << >>
  /\ ColIdle
  /\ SeqIdle

\* row_vals = [data_dict.get(col, "") for col in columns_order]
Project ==
  /\ proj_out = << >>
  /\ proj_out' = row_vals_of(proj_in, proj_cols)
  /\ UNCHANGED << SPREADSHEET, pc, endpoint, data, trials, block_data,
                  task_data, rows, existing_row, row_vals, errors, response,
                  calls, nreq, faults, overlap, request, proj_in, proj_cols >>
  /\ UNCHANGED << colVars, seqVars >>

ProjNext == Project

ProjSpec == ProjInit /\ [][ProjNext]_vars

(***************************************************************************)
(* The column letters and the cell range of the overwrite on their own:    *)
(* any column number up to MaxCol, any row number up to MaxRow.            *)
(***************************************************************************)
\* the handler state that the letters and the range do not touch
handlerVars ==
  << SPREADSHEET, pc, endpoint, data, trials, block_data, task_data, rows,
     existing_row, row_vals, errors, response, calls, nreq, faults, overlap,
     request >>

ColInit ==
  /\ ServerInit
  /\ SPREADSHEET[TASK_SHEET_NAME] = << >>
  /\ ProjIdle
  /\ num_cols \in 1..MaxCol
  /\ end_col_letter = ""
  /\ range_row \in 1..MaxRow
  /\ cell_range = NoRange
  /\ SeqIdle

\* end_col_letter = col_to_letter(num_cols)
ColToLetter ==
  /\ end_col_letter = ""
  /\ end_col_letter' = col_to_letter(num_cols)
  /\ UNCHANGED << num_cols, range_row, cell_range >>
  /\ UNCHANGED << handlerVars, projVars, seqVars >>

\* cell_range = f"A{existing_row}:{end_col_letter}{existing_row}"
CellRange ==
  /\ cell_range = NoRange
  /\ cell_range' = cell_range_of(range_row)
  /\ UNCHANGED << num_cols, end_col_letter, range_row >>
  /\ UNCHANGED << handlerVars, projVars, seqVars >>

ColNext == ColToLetter \/ CellRange

ColSpec == ColInit /\ [][ColNext]_vars

(***************************************************************************)
(* One request served alone, every store call returning: what each handler *)
(* leaves in the worksheets, from the worksheets it found (sheets), the    *)
(* JSON body and the reading of the server clock (stamp).                  *)
(***************************************************************************)
\* log_trials_bulk: the rows of the trials, appended in one call "if rows"
log_trials_bulk(sheets, body, stamp) ==
  LET built == trial_rows(Get(body, "trials", << >>), stamp)
  IN  IF built # << >>
        THEN [sheets EXCEPT ![TRIAL_SHEET_NAME] = ws_append_rows(@, built)]
        ELSE sheets

\* log_block: append_row(BLOCK_SHEET_NAME, data, BLOCK_COLUMNS)
log_block(sheets, body) ==
  [sheets EXCEPT ![BLOCK_SHEET_NAME] =
     ws_append_row(@, row_vals_of(body, BLOCK_COLUMNS))]

\* log_task: stamp, locate by str(sub_id), overwrite the row found or append
log_task(sheets, body, stamp) ==
  LET stamped == InjectTimestamp(body, stamp)
      found == ws_find(sheets[TASK_SHEET_NAME], str(Get(stamped, "sub_id", EmptyStr)))
      vals == row_vals_of(stamped, TASK_COLUMNS)
  IN  IF found # 0
        THEN [sheets EXCEPT ![TASK_SHEET_NAME] = ws_update(@, cell_range_of(found), vals)]
        ELSE [sheets EXCEPT ![TASK_SHEET_NAME] = ws_append_row(@, vals)]

\* log_block_complete: "if trials", "if block_data", "if task_data", each
\* part as the handler writes it
log_block_complete(sheets, body, stamp) ==
  LET trial_list == Get(body, "trials", << >>)
      block == Get(body, "block", EmptyDict)
      task == Get(body, "task", EmptyDict)
      after_trials ==
        IF trial_list # << >>
          THEN [sheets EXCEPT ![TRIAL_SHEET_NAME] =
                  ws_append_rows(@, trial_rows(trial_list, stamp))]
          ELSE sheets
      after_block ==
        IF DOMAIN block # {}
          THEN [after_trials EXCEPT ![BLOCK_SHEET_NAME] =
                  ws_append_row(@, row_vals_of(block, BLOCK_COLUMNS))]
          ELSE after_trials
      stamped == InjectTimestamp(task, stamp)
      found == ws_find(after_block[TASK_SHEET_NAME],
                       str(Get(stamped, "sub_id", EmptyStr)))
      vals == row_vals_of(stamped, TASK_COLUMNS)
  IN  IF DOMAIN task # {}
        THEN IF found # 0
               THEN [after_block EXCEPT ![TASK_SHEET_NAME] =
                       ws_update(@, cell_range_of(found), vals)]
               ELSE [after_block EXCEPT ![TASK_SHEET_NAME] = ws_append_row(@, vals)]
        ELSE after_block

\* the handlers' steps and the operators above agree: a request served alone,
\* none of its store calls raising, leaves what its operator gives
RunsAgree ==
  \A p \in Workers :
    (nreq = 1 /\ faults = 0 /\ pc[p] = "done" /\ endpoint[p] # "log_trial") =>
      \E t \in InitialTaskData, now \in ClockReadings :
        LET start == [n \in SheetNames |-> IF n = TASK_SHEET_NAME THEN t ELSE << >>]
            stamp == server_timestamp_iso(now)
        IN  SPREADSHEET =
              IF endpoint[p] = "log_trials_bulk" THEN log_trials_bulk(start, request[p], stamp)
              ELSE IF endpoint[p] = "log_block" THEN log_block(start, request[p])
              ELSE IF endpoint[p] = "log_task" THEN log_task(start, request[p], stamp)
              ELSE log_block_complete(start, request[p], stamp)

\* bodies {trials, block, task}: each part may be empty
SeqPayloads ==
  { [trials |-> t, block |-> b, task |-> k] :
      t \in TrialLists, b \in BlockPayloads, k \in {EmptyDict} \cup TaskPayloads }

SeqInit ==
  /\ ServerInit
  /\ ProjIdle
  /\ ColIdle
  /\ seq_body \in SeqPayloads
  /\ seq_ran = {}
  /\ seq_combined = [n \in SheetNames |-> << >>]
  /\ seq_separate = [n \in SheetNames |-> << >>]

\* the body is posted to /log_block_complete
RunCombined ==
  /\ "combined" \notin seq_ran
  /\ seq_ran' = seq_ran \cup {"combined"}
  /\ \E now \in ClockReadings :
       seq_combined' = log_block_complete(SPREADSHEET, seq_body, server_timestamp_iso(now))
  /\ UNCHANGED << seq_body, seq_separate >>
  /\ UNCHANGED << handlerVars, projVars, colVars >>

\* its trials are posted to /log_trials_bulk, then its block to /log_block,
\* then its task to /log_task
RunSeparate ==
  /\ "separate" \notin seq_ran
  /\ seq_ran' = seq_ran \cup {"separate"}
  /\ \E now \in ClockReadings :
       seq_separate' =
         log_task(
           log_block(
             log_trials_bulk(SPREADSHEET, [trials |-> Get(seq_body, "trials", << >>)],
                             server_timestamp_iso(now)),
             Get(seq_body, "block", EmptyDict)),
           Get(seq_body, "task", EmptyDict),
           server_timestamp_iso(now))
  /\ UNCHANGED << seq_body, seq_combined >>
  /\ UNCHANGED << handlerVars, projVars, colVars >>

SeqNext == RunCombined \/ RunSeparate

SeqSpec == SeqInit /\ [][SeqNext]_vars

(***************************************************************************)
(* Vocabulary of the properties.                                           *)
(***************************************************************************)
TaskData == SPREADSHEET[TASK_SHEET_NAME]
TrialData == SPREADSHEET[TRIAL_SHEET_NAME]
BlockData == SPREADSHEET[BLOCK_SHEET_NAME]

\* the subject id a TaskData row is found by: the text of its first cell
SubjectOf(row) == str(row[1])

\* the rows of a worksheet that belong to a subject
RowsOf(ws, subject) == {r \in 1..Len(ws) : SubjectOf(ws[r]) = subject}

\* at most one row per subject id
OneRowPerSubject(ws) ==
  \A i, j \in 1..Len(ws) : SubjectOf(ws[i]) = SubjectOf(ws[j]) => i = j

\* the task mapping a worker upserts, after the timestamp was injected
UpsertPayload(p) == IF endpoint[p] = "log_task" THEN data[p] ELSE task_data[p]

\* the subject id a worker's upsert is for
UpsertSubject(p) == str(Get(UpsertPayload(p), "sub_id", EmptyStr))

\* the write calls of a worker's current request on one sheet
CallsOn(p, sheet) ==
  {i \in 1..Len(calls[p]) : calls[p][i].sheet = sheet /\ calls[p][i].op \in WriteOps}

\* worker p has finished a request whose upsert wrote with the given call
UpsertDone(p, op) ==
  /\ pc[p] = "done"
  /\ endpoint[p] \in {"log_task", "log_block_complete"}
  /\ \E i \in CallsOn(p, TASK_SHEET_NAME) : calls[p][i].op = op /\ calls[p][i].ok

\* this step is the write of worker p's upsert, and the write succeeded
UpsertWrites(p) ==
  /\ pc[p] \in {"task_write", "bc_task_write"}
  /\ pc'[p] = "done"
  /\ calls'[p][Len(calls'[p])].ok

(***************************************************************************)
(* C1: from a TaskData with at most one row per subject id, task upserts   *)
(* that do not overlap in time (through log_task or the task part of       *)
(* log_block_complete) leave at most one row per subject id.               *)
(***************************************************************************)
C1_OneRowPerSubject == ~overlap => OneRowPerSubject(TaskData)

\* two upserts for one subject, one after the other: the first appended,
\* the second overwrote, and the subject has one row
C1_Witness ==
  /\ ~overlap
  /\ \E p, q \in Workers :
       /\ p # q
       /\ UpsertDone(p, "append_row")
       /\ UpsertDone(q, "update")
       /\ UpsertSubject(p) = UpsertSubject(q)
       /\ Cardinality(RowsOf(TaskData, UpsertSubject(p))) = 1

(***************************************************************************)
(* C2: a successful upsert that does not overlap another one, for a        *)
(* subject that has a row, keeps the row count and makes that row equal to *)
(* the projection of the new payload, columns absent from the payload      *)
(* becoming empty; for a subject with no row it appends exactly one row,   *)
(* the projection, and leaves every earlier row as it was.                 *)
(***************************************************************************)
C2_UpsertStep(p) ==
  LET old == TaskData
      new == SPREADSHEET'[TASK_SHEET_NAME]
      mine == RowsOf(old, UpsertSubject(p))
      projected == [i \in 1..Len(TASK_COLUMNS) |->
                      IF TASK_COLUMNS[i] \in DOMAIN UpsertPayload(p)
                        THEN UpsertPayload(p)[TASK_COLUMNS[i]]
                        ELSE S("")]
  IN  IF mine # {}
        THEN /\ Len(new) = Len(old)
             /\ \E r \in mine :
                  /\ new[r] = projected
                  /\ \A q \in 1..Len(old) : q # r => new[q] = old[q]
        ELSE /\ Len(new) = Len(old) + 1
             /\ new[Len(new)] = projected
             /\ \A q \in 1..Len(old) : new[q] = old[q]

C2_UpsertCorrect ==
  [][\A p \in Workers : (UpsertWrites(p) /\ ~overlap) => C2_UpsertStep(p)]_vars

\* an upsert overwrote the row of the start-up table that held a version,
\* with a payload that has none: the cell is empty now
C2_Witness ==
  \E p \in Workers :
    /\ ~overlap
    /\ UpsertDone(p, "update")
    /\ "version" \notin DOMAIN UpsertPayload(p)
    /\ \E r \in RowsOf(TaskData, UpsertSubject(p)) :
         /\ TaskData[r][39] = S("")
         /\ TaskData[r][3] = Get(UpsertPayload(p), "total_blocks", S(""))
         /\ TaskData[r][3] # N("9")

(***************************************************************************)
(* C3: nothing excludes a second upsert between the locate and the write   *)
(* of a first one.  Two upserts for one subject that both located no row   *)
(* and both appended successfully leave two rows for that subject, and     *)
(* log_task answers ok to each.                                            *)
(***************************************************************************)
C3_RaceDuplicates ==
  \A p, q \in Workers :
    ( /\ p # q
      /\ UpsertDone(p, "append_row")
      /\ UpsertDone(q, "append_row")
      /\ UpsertSubject(p) = UpsertSubject(q) )
    => /\ Cardinality(RowsOf(TaskData, UpsertSubject(p))) >= 2
       /\ overlap
       /\ endpoint[p] = "log_task" => response[p].status = "ok"

\* both located before either wrote, both appended, both were told ok, and
\* the subject, which had no row, has two
C3_Witness ==
  /\ overlap
  /\ \A p \in Workers :
       /\ UpsertDone(p, "append_row")
       /\ response[p].status = "ok"
       /\ existing_row[p] = 0
  /\ UpsertSubject(1) = UpsertSubject(2)
  /\ Cardinality(RowsOf(TaskData, UpsertSubject(1))) = 2

(***************************************************************************)
(* More vocabulary: what a request asked for and what its handler did.     *)
(***************************************************************************)
Range(seq) == {seq[i] : i \in 1..Len(seq)}

\* the three parts of a /log_block_complete body, as received
PartNames == << "trials", "block", "task" >>

SheetOfPart(part) ==
  IF part = "trials" THEN TRIAL_SHEET_NAME
  ELSE IF part = "block" THEN BLOCK_SHEET_NAME
  ELSE TASK_SHEET_NAME

\* the part is in the body and is not empty ("if trials", "if block_data",
\* "if task_data")
PartGiven(p, part) ==
  IF part = "trials" THEN Get(request[p], "trials", << >>) # << >>
  ELSE DOMAIN Get(request[p], part, EmptyDict) # {}

\* all calls, of any kind, that worker p's request issued on a sheet
AllCallsOn(p, sheet) == {i \in 1..Len(calls[p]) : calls[p][i].sheet = sheet}

\* a part failed: it was given and one of its store calls raised
PartFailed(p, part) ==
  /\ PartGiven(p, part)
  /\ \E i \in AllCallsOn(p, SheetOfPart(part)) : ~calls[p][i].ok

\* the error entry of a part
ErrorOf(part) == part \o ": " \o ErrMsg

\* worker p has answered a /log_block_complete request
CompleteDone(p) == pc[p] = "done" /\ endpoint[p] = "log_block_complete"

(***************************************************************************)
(* C4: in log_block_complete a failed part never keeps a later part from   *)
(* being attempted: every part given is attempted, in the order trials,    *)
(* block, task; when only the block part failed the response is            *)
(* partial_error with the one error "block: ...", and the trial rows and   *)
(* the task row of the request are in their tables when it answers.        *)
(***************************************************************************)
C4_Answered(p) ==
  /\ \A part \in Range(PartNames) :
       PartGiven(p, part) => AllCallsOn(p, SheetOfPart(part)) # {}
  /\ \A i, j \in 1..Len(calls[p]) :
       (i < j /\ calls[p][i].sheet # calls[p][j].sheet) =>
         \/ calls[p][i].sheet = TRIAL_SHEET_NAME
         \/ calls[p][j].sheet = TASK_SHEET_NAME
  /\ ( PartFailed(p, "block") /\ ~PartFailed(p, "trials") /\ ~PartFailed(p, "task") )
     => /\ response[p] = [status |-> "partial_error", http |-> 500,
                          errors |-> << ErrorOf("block") >>]
        /\ \A k \in 1..Len(Get(request[p], "trials", << >>)) :
             \E r \in 1..Len(TrialData) : TrialData[r] = rows[p][k]
        /\ PartGiven(p, "task") =>
             \E r \in RowsOf(TaskData, UpsertSubject(p)) : TaskData[r] = row_vals[p]

C4_PartialFailureIsolation ==
  [][\A p \in Workers :
       (pc[p] \notin {"idle", "done"} /\ (CompleteDone(p))') => (C4_Answered(p))']_vars

\* a request with all three parts, whose block append failed: its trial rows
\* and its task row were written all the same
C4_Witness ==
  \E p \in Workers :
    /\ CompleteDone(p)
    /\ \A part \in Range(PartNames) : PartGiven(p, part)
    /\ response[p].status = "partial_error"
    /\ response[p].errors = << ErrorOf("block") >>
    /\ \E i \in CallsOn(p, BLOCK_SHEET_NAME) : ~calls[p][i].ok
    /\ \E i \in CallsOn(p, TRIAL_SHEET_NAME) : calls[p][i].ok
    /\ \E i \in CallsOn(p, TASK_SHEET_NAME) : calls[p][i].ok
    /\ \E r \in 1..Len(TaskData) : TaskData[r] = row_vals[p]
    /\ \E r \in 1..Len(TrialData) : TrialData[r] = rows[p][1]

(***************************************************************************)
(* C5: the response of log_block_complete is ok exactly when no part       *)
(* failed; otherwise it is partial_error with HTTP status 500 and one      *)
(* error per failed part, prefixed by the part's name, in the order        *)
(* trials, block, task.  On ok, trials_added is the number of rows the     *)
(* request appended to TrialData.                                          *)
(***************************************************************************)
\* the rows worker p's request appended to TrialData
RowsAppended(p) ==
  IF \E i \in CallsOn(p, TRIAL_SHEET_NAME) : calls[p][i].ok
    THEN Len(calls[p][CHOOSE i \in CallsOn(p, TRIAL_SHEET_NAME) : calls[p][i].ok].rows)
    ELSE 0

C5_ResponseMatchesFailures ==
  \A p \in Workers :
    CompleteDone(p) =>
      LET failed == SelectSeq(PartNames, LAMBDA part : PartFailed(p, part))
      IN  /\ response[p].status = "ok" <=> failed = << >>
          /\ failed = << >> =>
               /\ response[p].http = 200
               /\ response[p].trials_added = RowsAppended(p)
          /\ failed # << >> =>
               /\ response[p].status = "partial_error"
               /\ response[p].http = 500
               /\ Len(response[p].errors) = Len(failed)
               /\ \A i \in 1..Len(failed) : response[p].errors[i] = ErrorOf(failed[i])

\* the trials part and the task part both failed, the block part did not:
\* two errors, trials first
C5_Witness ==
  \E p \in Workers :
    /\ CompleteDone(p)
    /\ PartFailed(p, "trials") /\ ~PartFailed(p, "block") /\ PartFailed(p, "task")
    /\ PartGiven(p, "block")
    /\ response[p].errors = << ErrorOf("trials"), ErrorOf("task") >>

(***************************************************************************)
(* C6: when the locate step of an upsert fails with a fault other than     *)
(* "not found", the request writes nothing to TaskData and the fault is    *)
(* reported (status error by log_task, a "task: ..." entry of              *)
(* partial_error by log_block_complete); the append is issued only after   *)
(* a locate that returned "not found".                                     *)
(***************************************************************************)
\* this step is worker p's locate call
LocateStep(p) ==
  /\ pc[p] \in {"task_find", "bc_task_find"}
  /\ pc'[p] # pc[p]

C6_LocateStep(p) ==
  IF faults' # faults
    THEN /\ pc'[p] = "done"
         /\ SPREADSHEET' = SPREADSHEET
         /\ \A i \in 1..Len(calls'[p]) :
              calls'[p][i].sheet = TASK_SHEET_NAME => calls'[p][i].op \notin WriteOps
         /\ endpoint[p] = "log_task" =>
              response'[p] = [status |-> "error", message |-> ErrMsg, http |-> 500]
         /\ endpoint[p] = "log_block_complete" =>
              /\ response'[p].status = "partial_error"
              /\ response'[p].http = 500
              /\ response'[p].errors[Len(response'[p].errors)] = ErrorOf("task")
    ELSE /\ pc'[p] \in {"task_write", "bc_task_write"}
         /\ existing_row'[p] = 0 <=> RowsOf(TaskData, UpsertSubject(p)) = {}

C6_LocateFaultWritesNothing ==
  [][\A p \in Workers :
       /\ LocateStep(p) => C6_LocateStep(p)
       /\ ( /\ pc[p] \in {"task_write", "bc_task_write"}
            /\ pc'[p] = "done"
            /\ calls'[p][Len(calls'[p])].op = "append_row" )
          => /\ existing_row[p] = 0
             /\ \E i \in 1..Len(calls[p]) :
                  calls[p][i].op = "find" /\ calls[p][i].ok]_vars

\* the search for a subject that has a row raised: the request has ended with
\* an error, has issued no write, and the row is as it was at start-up
C6_Witness ==
  \E p \in Workers :
    /\ pc[p] = "done"
    /\ endpoint[p] = "log_task"
    /\ \E i \in 1..Len(calls[p]) : calls[p][i].op = "find" /\ ~calls[p][i].ok
    /\ CallsOn(p, TASK_SHEET_NAME) = {}
    /\ response[p].status = "error"
    /\ \E r \in RowsOf(TaskData, UpsertSubject(p)) : TaskData[r][39] = S("v1")

(***************************************************************************)
(* C7: every row an endpoint submits (a single append, each row of a bulk  *)
(* append, the overwrite of a task row) has as many values as the column   *)
(* order of its worksheet, each column holding the payload's value for it  *)
(* or the empty string, whatever fields the payload has.                   *)
(***************************************************************************)
\* the field mappings, as received, that the rows of a call on a sheet come from
SourcesOf(p, sheet) ==
  IF endpoint[p] = "log_trials_bulk" THEN Get(request[p], "trials", << >>)
  ELSE IF endpoint[p] = "log_block_complete"
    THEN IF sheet = TRIAL_SHEET_NAME THEN Get(request[p], "trials", << >>)
         ELSE IF sheet = BLOCK_SHEET_NAME THEN << Get(request[p], "block", EmptyDict) >>
         ELSE << Get(request[p], "task", EmptyDict) >>
  ELSE << request[p] >>

\* a submitted row follows the column order for the mapping it comes from
\* (the timestamp column is the subject of C9)
RowFollows(row, mapping, columns) ==
  /\ Len(row) = Len(columns)
  /\ \A i \in 1..Len(columns) :
       columns[i] # "timestamp" =>
         row[i] = IF columns[i] \in DOMAIN mapping THEN mapping[columns[i]] ELSE S("")

C7_FullWidthRows ==
  \A p \in Workers : \A i \in 1..Len(calls[p]) :
    calls[p][i].op \in WriteOps =>
      LET sent == calls[p][i].rows
          from == SourcesOf(p, calls[p][i].sheet)
      IN  /\ Len(sent) = Len(from)
          /\ \A k \in 1..Len(sent) :
               RowFollows(sent[k], from[k], ColumnsOf(calls[p][i].sheet))

\* a /log_block body with no field at all was appended as a full-width row,
\* and a task body with an unknown field and missing fields overwrote a row
C7_Witness ==
  \E p, q \in Workers :
    /\ pc[p] = "done" /\ endpoint[p] = "log_block" /\ request[p] = EmptyDict
    /\ \E i \in CallsOn(p, BLOCK_SHEET_NAME) :
         calls[p][i].ok /\ Len(calls[p][i].rows[1]) = 25
    /\ UpsertDone(q, "update")
    /\ "debug" \in DOMAIN UpsertPayload(q)
    /\ Len(row_vals[q]) = 40

(***************************************************************************)
(* C8: for every field mapping m and column order S, the projected row     *)
(* holds m[S[i]] at index i when S[i] is a key of m whose value is not the *)
(* empty string, and the empty string otherwise; keys of m that are not in *)
(* S have no effect on the row.                                            *)
(***************************************************************************)
\* m without its keys that are no columns of S
OnlyColumns(m, columns) == [k \in (DOMAIN m) \cap Range(columns) |-> m[k]]

C8_ProjectionPointwise ==
  proj_out # << >> =>
    /\ DOMAIN proj_out = 1..Len(proj_cols)
    /\ \A i \in 1..Len(proj_cols) :
         proj_out[i] =
           IF proj_cols[i] \in DOMAIN proj_in /\ proj_in[proj_cols[i]] # S("")
             THEN proj_in[proj_cols[i]]
             ELSE S("")
    /\ \A m \in ProjMappings :
         OnlyColumns(m, proj_cols) = OnlyColumns(proj_in, proj_cols) =>
           \A i \in 1..Len(proj_cols) :
             proj_out[i] = IF proj_cols[i] \in DOMAIN m THEN m[proj_cols[i]] ELSE S("")

\* a task mapping with the number 0 as sub_id, no timestamp and an unknown
\* field: 0 is kept, the timestamp cell is empty
C8_Witness ==
  /\ proj_cols = TASK_COLUMNS
  /\ proj_out # << >>
  /\ DOMAIN proj_in = {"sub_id", "isFinished", "debug"}
  /\ proj_in["sub_id"] = N("0")
  /\ proj_out[1] = N("0")
  /\ proj_out[2] = S("")
  /\ proj_out[40] = proj_in["isFinished"]

(***************************************************************************)
(* C9: in every trial row and task row submitted by log_trial,             *)
(* log_trials_bulk, log_task and the trials and task parts of              *)
(* log_block_complete, the timestamp column holds a server-generated       *)
(* timestamp when the payload's timestamp is absent or empty, and the      *)
(* caller's value, unchanged, when it is not empty.  Block records are     *)
(* submitted with no timestamp added.                                      *)
(***************************************************************************)
\* what server_timestamp_iso() may return
ServerStamps == {server_timestamp_iso(t) : t \in ClockReadings}

\* index of the timestamp column in TRIAL_COLUMNS and in TASK_COLUMNS
TimestampColumn == CHOOSE i \in 1..Len(TASK_COLUMNS) : TASK_COLUMNS[i] = "timestamp"

C9_TimestampOf(row, mapping) ==
  IF "timestamp" \in DOMAIN mapping /\ mapping["timestamp"] # S("")
    THEN row[TimestampColumn] = mapping["timestamp"]
    ELSE row[TimestampColumn] \in ServerStamps

BulkDone(p) == pc[p] = "done" /\ endpoint[p] = "log_trials_bulk"

\* the write calls of worker p's request, in the order issued
WriteCalls(p) == SelectSeq(calls[p], LAMBDA c : c.op \in WriteOps)

\* the one bulk call of a request with N >= 1 trials: all rows, in order
C10_OneBulkCall(p) ==
  LET sent == WriteCalls(p)
      from == Get(request[p], "trials", << >>)
  IN  /\ Len(sent) = 1
      /\ sent[1].op = "append_rows"
      /\ sent[1].sheet = TRIAL_SHEET_NAME
      /\ Len(sent[1].rows) = Len(from)
      /\ \A k \in 1..Len(from) : RowFollows(sent[1].rows[k], from[k], TRIAL_COLUMNS)
      /\ sent[1].ok =>
           response[p] = [status |-> "ok", rows_added |-> Len(from), http |-> 200]

C10_AsStated ==
  \A p \in Workers :
    BulkDone(p) =>
      IF Get(request[p], "trials", << >>) = << >>
        THEN /\ WriteCalls(p) = << >>
             /\ response[p].status = "ok"
             /\ response[p].rows_added = 0
        ELSE C10_OneBulkCall(p)

\* the amended statement: the same, once the worksheet lookup has returned;
\* when the lookup raises there is no write call and the status is error
C10_BulkAppend ==
  \A p \in Workers :
    BulkDone(p) =>
      IF calls[p][1].ok
        THEN IF Get(request[p], "trials", << >>) = << >>
               THEN /\ WriteCalls(p) = << >>
                    /\ response[p] = [status |-> "ok", rows_added |-> 0, http |-> 200]
               ELSE /\ C10_OneBulkCall(p)
                    /\ ~WriteCalls(p)[1].ok => response[p].status = "error"
        ELSE /\ WriteCalls(p) = << >>
             /\ response[p].status = "error"
             /\ calls[p] = << WorksheetCall(TRIAL_SHEET_NAME, FALSE) >>

\* two trials went out in one call and are the last two rows of TrialData,
\* in payload order; the response counts two
C10_Witness ==
  \E p \in Workers :
    /\ BulkDone(p)
    /\ Len(request[p].trials) = 2
    /\ Len(WriteCalls(p)) = 1
    /\ response[p].status = "ok"
    /\ response[p].rows_added = 2
    /\ Len(TrialData) >= 2
    /\ TrialData[Len(TrialData) - 1][5] = request[p].trials[1].trial_number
    /\ TrialData[Len(TrialData)][5] = request[p].trials[2].trial_number

(***************************************************************************)
(* C11: on every logging endpoint a store call that raises (worksheet      *)
(* lookup, locate, append, bulk append, overwrite) ends the request with   *)
(* status error (partial_error for log_block_complete), the message of the *)
(* failure and HTTP status 500; a request none of whose store calls raised *)
(* ends with status ok and HTTP status 200.  A store call that raises      *)
(* never leaves the request without a response.                            *)
(***************************************************************************)
\* some store call of worker p's request raised
StoreFailed(p) == \E i \in 1..Len(calls[p]) : ~calls[p][i].ok

\* the response of a finished request tells whether a store call raised
C11_Response(p) ==
  IF StoreFailed(p)
    THEN IF endpoint[p] = "log_block_complete"
           THEN /\ response[p].status = "partial_error"
                /\ response[p].http = 500
                /\ response[p].errors # << >>
                /\ \A k \in 1..Len(response[p].errors) :
                     \E part \in Range(PartNames) :
                       response[p].errors[k] = part \o ": " \o ErrMsg
           ELSE response[p] = [status |-> "error", message |-> ErrMsg, http |-> 500]
    ELSE /\ response[p].status = "ok"
         /\ response[p].http = 200

\* this step is a store call of worker p that raised
StoreCallRaises(p) ==
  /\ pc[p] \notin {"idle", "done"}
  /\ calls'[p] # calls[p]
  /\ ~calls'[p][Len(calls'[p])].ok

\* the call that raised is answered at once, or, in log_block_complete, is
\* recorded in errors, which makes the final response a partial_error
C11_Raised(p) ==
  IF endpoint[p] = "log_block_complete"
    THEN /\ Len(errors'[p]) = Len(errors[p]) + 1
         /\ pc'[p] = "done" => response'[p].status = "partial_error"
    ELSE /\ pc'[p] = "done"
         /\ response'[p].status = "error"

C11_StoreFailureReported ==
  [][\A p \in Workers :
       /\ StoreCallRaises(p) => C11_Raised(p)
       /\ (pc[p] \notin {"idle", "done"} /\ pc'[p] = "done") => (C11_Response(p))'
       /\ pc'[p] = "done" => response'[p].status # "none"]_vars

\* the overwrite of a log_task raised and the request was answered with the
\* error; the locate of a log_block_complete raised and it was answered
\* with a partial_error
C11_Witness ==
  \E p, q \in Workers :
    /\ pc[p] = "done" /\ endpoint[p] = "log_task"
    /\ calls[p] # << >> /\ calls[q] # << >>
    /\ calls[p][Len(calls[p])].op = "update"
    /\ ~calls[p][Len(calls[p])].ok
    /\ response[p] = [status |-> "error", message |-> ErrMsg, http |-> 500]
    /\ pc[q] = "done" /\ endpoint[q] = "log_block_complete"
    /\ calls[q][Len(calls[q])].op = "find"
    /\ ~calls[q][Len(calls[q])].ok
    /\ response[q].status = "partial_error"
    /\ response[q].http = 500

(***************************************************************************)
(* C12: col_to_letter maps 26 to "Z" and 27 to "AA"; for every column      *)
(* number n from 1 it returns the spreadsheet label of column n (1..26 are *)
(* A..Z, 27..702 are AA..ZZ), and different numbers get different labels.  *)
(* The overwrite of row r addresses the range from column A to the label   *)
(* of column len(TASK_COLUMNS), in row r.                                  *)
(***************************************************************************)
\* the label a spreadsheet gives column n: one letter up to 26, two up to
\* 702, three up to 18278
SpreadsheetLabel(n) ==
  IF n <= 26 THEN Letters[n]
  ELSE IF n <= 702
    THEN Letters[((n - 27) \div 26) + 1] \o Letters[((n - 27) % 26) + 1]
  ELSE Letters[((n - 703) \div 676) + 1]
         \o Letters[(((n - 703) \div 26) % 26) + 1]
         \o Letters[((n - 703) % 26) + 1]

C12_ColumnLabels ==
  /\ col_to_letter(26) = "Z"
  /\ col_to_letter(27) = "AA"
  /\ end_col_letter # "" =>
       /\ end_col_letter = SpreadsheetLabel(num_cols)
       /\ \A m \in 1..MaxCol : m # num_cols => col_to_letter(m) # end_col_letter
  /\ cell_range # NoRange =>
       cell_range = [first_col |-> "A", first_row |-> range_row,
                     last_col |-> SpreadsheetLabel(Len(TASK_COLUMNS)),
                     last_row |-> range_row]

\* column 702 got the label ZZ, and the range of row 2 ends at AN, the
\* label of column 40
C12_Witness ==
  /\ num_cols = 702
  /\ end_col_letter = "ZZ"
  /\ range_row = 2
  /\ cell_range = [first_col |-> "A", first_row |-> 2, last_col |-> "AN", last_row |-> 2]

(***************************************************************************)
(* C13: for every body {trials, block, task}, an empty trials list, an     *)
(* empty block mapping and an empty task mapping included, and with no     *)
(* store call raising, log_block_complete leaves the three worksheets as   *)
(* log_trials_bulk with the trials, then log_block with the block, then    *)
(* log_task with the task leave them, from the same worksheets.            *)
(* This fails for an empty block mapping and for an empty task mapping:    *)
(* log_block_complete skips the part, log_block appends a row of empty     *)
(* cells and log_task upserts a row for the subject id "".                 *)
(***************************************************************************)
\* both ways have been served, at the same reading of the clock
BothRan ==
  /\ seq_ran = {"combined", "separate"}
  /\ \E now \in ClockReadings :
       /\ seq_combined = log_block_complete(SPREADSHEET, seq_body, server_timestamp_iso(now))
       /\ seq_separate =
            log_task(
              log_block(
                log_trials_bulk(SPREADSHEET, [trials |-> seq_body.trials],
                                server_timestamp_iso(now)),
                seq_body.block),
              seq_body.task,
              server_timestamp_iso(now))

C13_AsStated == BothRan => seq_combined = seq_separate

\* what does hold: the worksheets agree when the block and the task are not
\* empty, whatever the trials; with an empty block the three endpoints
\* leave one more BlockData row, with an empty task a TaskData that differs
C13_NonEmptyParts ==
  BothRan =>
    /\ seq_combined[TRIAL_SHEET_NAME] = seq_separate[TRIAL_SHEET_NAME]
    /\ IF DOMAIN seq_body.block # {}
         THEN seq_combined[BLOCK_SHEET_NAME] = seq_separate[BLOCK_SHEET_NAME]
         ELSE /\ seq_combined[BLOCK_SHEET_NAME] = SPREADSHEET[BLOCK_SHEET_NAME]
              /\ Len(seq_separate[BLOCK_SHEET_NAME]) = Len(SPREADSHEET[BLOCK_SHEET_NAME]) + 1
    /\ IF DOMAIN seq_body.task # {}
         THEN seq_combined[TASK_SHEET_NAME] = seq_separate[TASK_SHEET_NAME]
         ELSE /\ seq_combined[TASK_SHEET_NAME] = SPREADSHEET[TASK_SHEET_NAME]
              /\ seq_separate[TASK_SHEET_NAME] # SPREADSHEET[TASK_SHEET_NAME]

(***************************************************************************)
(* C14: no write is retried.  Within one request each worksheet receives   *)
(* at most one write call (append, bulk append or overwrite); a write call *)
(* that raised is never followed by another write call to the same         *)
(* worksheet in that request; a task upsert that reaches its write issues  *)
(* one call, either the overwrite or the append, never both.               *)
(***************************************************************************)
\* worker p's request is an upsert whose locate has returned and which has
\* passed its write step
UpsertWrote(p) ==
  /\ pc[p] = "done"
  /\ endpoint[p] \in {"log_task", "log_block_complete"}
  /\ \E i \in 1..Len(calls[p]) : calls[p][i].op = "find" /\ calls[p][i].ok

C14_NoRetry ==
  \A p \in Workers :
    /\ \A sheet \in SheetNames : Cardinality(CallsOn(p, sheet)) <= 1
    /\ \A i, j \in 1..Len(calls[p]) :
         ( /\ i < j
           /\ calls[p][i].op \in WriteOps
           /\ ~calls[p][i].ok
           /\ calls[p][j].sheet = calls[p][i].sheet )
         => calls[p][j].op \notin WriteOps
    /\ ~\E i, j \in CallsOn(p, TASK_SHEET_NAME) :
          calls[p][i].op = "update" /\ calls[p][j].op = "append_row"
    /\ UpsertWrote(p) =>
         /\ Cardinality(CallsOn(p, TASK_SHEET_NAME)) = 1
         /\ \A i \in CallsOn(p, TASK_SHEET_NAME) :
              calls[p][i].op = IF existing_row[p] # 0 THEN "update" ELSE "append_row"

\* a log_task whose overwrite raised: the request ended there, with that one
\* write call; and a log_block_complete that wrote each worksheet once
C14_Witness ==
  \E p, q \in Workers :
    /\ pc[p] = "done" /\ endpoint[p] = "log_task"
    /\ \E i \in CallsOn(p, TASK_SHEET_NAME) :
         calls[p][i].op = "update" /\ ~calls[p][i].ok /\ i = Len(calls[p])
    /\ Cardinality(CallsOn(p, TASK_SHEET_NAME)) = 1
    /\ CompleteDone(q)
    /\ \A sheet \in SheetNames : Cardinality(CallsOn(q, sheet)) = 1

(***************************************************************************)
(* C15: under any interleaving of requests, the overwrite of a task upsert *)
(* lands on a row whose first cell, at the moment of the write, reads as   *)
(* the subject id of the request.  No step removes a row, inserts one      *)
(* above another or changes the subject a row belongs to, so the row       *)
(* number the locate returned designates the subject's row until the write *)
(* lands; and no upsert changes a row of another subject id.               *)
(***************************************************************************)
\* worker p has located a row and not yet written: the row number still
\* designates a row of its subject
C15_Designates(p) ==
  (pc[p] \in {"task_write", "bc_task_write"} /\ existing_row[p] # 0) =>
    /\ existing_row[p] \in 1..Len(TaskData)
    /\ SubjectOf(TaskData[existing_row[p]]) = UpsertSubject(p)

\* rows stay where they are and keep their subject
C15_RowsStay ==
  /\ Len(SPREADSHEET'[TASK_SHEET_NAME]) >= Len(TaskData)
  /\ \A r \in 1..Len(TaskData) :
       SubjectOf(SPREADSHEET'[TASK_SHEET_NAME][r]) = SubjectOf(TaskData[r])

\* this step is the write step of worker p's upsert
C15_WriteStep(p) ==
  /\ pc[p] \in {"task_write", "bc_task_write"}
  /\ pc'[p] = "done"

C15_OverwriteHitsSubject ==
  [][/\ C15_RowsStay
     /\ \A p \in Workers :
          /\ (C15_Designates(p))'
          /\ C15_WriteStep(p) =>
               /\ C15_Designates(p)
               /\ \A r \in 1..Len(TaskData) :
                    SPREADSHEET'[TASK_SHEET_NAME][r] # TaskData[r] =>
                      /\ r = existing_row[p]
                      /\ SubjectOf(TaskData[r]) = UpsertSubject(p)]_vars

\* one upsert located the row of its subject, another upsert then appended
\* a row for a subject that had none, and the first one's overwrite landed
\* on the row it had located
C15_Witness ==
  \E p, q \in Workers :
    /\ p # q
    /\ overlap
    /\ UpsertDone(p, "update")
    /\ UpsertDone(q, "append_row")
    /\ UpsertSubject(p) # UpsertSubject(q)
    /\ existing_row[p] # 0
    /\ TaskData[existing_row[p]] = row_vals[p]
    /\ TaskData[Len(TaskData)] = row_vals[q]

(***************************************************************************)
(* C16: rows are never removed, and TrialData and BlockData are            *)
(* append-only.  In every step of every interleaving the row count of each *)
(* worksheet does not decrease and every TrialData and BlockData row keeps *)
(* the values it was appended with; a step of log_trial, log_trials_bulk,  *)
(* log_block or log_task leaves the two worksheets it does not write as    *)
(* they were.                                                              *)
(***************************************************************************)
\* the worksheet an endpoint writes (log_block_complete writes all three)
SheetOfEndpoint(route) ==
  IF route \in {"log_trial", "log_trials_bulk"} THEN TRIAL_SHEET_NAME
  ELSE IF route = "log_block" THEN BLOCK_SHEET_NAME
  ELSE TASK_SHEET_NAME

\* this step is a store call of worker p
StoreCall(p) ==
  /\ pc[p] \notin {"idle", "done"}
  /\ calls'[p] # calls[p]

C16_AppendOnly ==
  [][/\ \A n \in SheetNames : Len(SPREADSHEET'[n]) >= Len(SPREADSHEET[n])
     /\ \A n \in {TRIAL_SHEET_NAME, BLOCK_SHEET_NAME} :
          \A r \in 1..Len(SPREADSHEET[n]) : SPREADSHEET'[n][r] = SPREADSHEET[n][r]
     /\ \A p \in Workers :
          (StoreCall(p) /\ endpoint[p] # "log_block_complete") =>
            \A n \in SheetNames \ {SheetOfEndpoint(endpoint[p])} :
              SPREADSHEET'[n] = SPREADSHEET[n]]_vars

\* a bulk request appended two rows, a log_trial then appended a third: the
\* first two are as they were submitted, BlockData is empty
C16_Witness ==
  \E p, q \in Workers :
    /\ BulkDone(p)
    /\ \E i \in CallsOn(p, TRIAL_SHEET_NAME) :
         /\ calls[p][i].ok
         /\ Len(calls[p][i].rows) = 2
         /\ Len(TrialData) = 3
         /\ TrialData[1] = calls[p][i].rows[1]
         /\ TrialData[2] = calls[p][i].rows[2]
    /\ pc[q] = "done" /\ endpoint[q] = "log_trial"
    /\ \E j \in CallsOn(q, TRIAL_SHEET_NAME) :
         calls[q][j].ok /\ TrialData[3] = calls[q][j].rows[1]
    /\ BlockData = << >>

(***************************************************************************)
(* C17: duplicate task rows are never repaired.  Once TaskData holds two   *)
(* or more rows for a subject id, every later state holds at least as many *)
(* rows for it; every upsert for that subject that locates from then on    *)
(* finds the first of them (the lowest row number) and overwrites that row *)
(* only, the other rows of the subject keeping their values.               *)
(***************************************************************************)
\* the subject ids that have a row
Subjects(ws) == {SubjectOf(ws[r]) : r \in 1..Len(ws)}

\* r is the first row of the subject
FirstRowOf(ws, subject, r) ==
  /\ r \in RowsOf(ws, subject)
  /\ \A q \in RowsOf(ws, subject) : q >= r

\* the subject of worker p's upsert has two rows or more
Duplicated(p) == Cardinality(RowsOf(TaskData, UpsertSubject(p))) >= 2

C17_DuplicatesStay ==
  [][/\ \A subject \in Subjects(TaskData) :
          Cardinality(RowsOf(TaskData, subject)) >= 2 =>
            Cardinality(RowsOf(SPREADSHEET'[TASK_SHEET_NAME], subject))
              >= Cardinality(RowsOf(TaskData, subject))
     /\ \A p \in Workers :
          /\ (LocateStep(p) /\ faults' = faults /\ Duplicated(p)) =>
               FirstRowOf(TaskData, UpsertSubject(p), existing_row'[p])
          /\ (UpsertWrites(p) /\ existing_row[p] # 0 /\ Duplicated(p)) =>
               /\ FirstRowOf(TaskData, UpsertSubject(p), existing_row[p])
               /\ Len(SPREADSHEET'[TASK_SHEET_NAME]) = Len(TaskData)
               /\ SPREADSHEET'[TASK_SHEET_NAME][existing_row[p]] = row_vals[p]
               /\ \A r \in 1..Len(TaskData) :
                    r # existing_row[p] =>
                      SPREADSHEET'[TASK_SHEET_NAME][r] = TaskData[r]]_vars

\* two upserts for the subject that has two rows have both overwritten the
\* first of them; the second row is as the race left it
C17_Witness ==
  \E p, q \in Workers :
    /\ p # q
    /\ UpsertDone(p, "update") /\ UpsertDone(q, "update")
    /\ UpsertSubject(p) = "S1" /\ UpsertSubject(q) = "S1"
    /\ existing_row[p] = existing_row[q]
    /\ Cardinality(RowsOf(TaskData, "S1")) = 2
    /\ \E r \in RowsOf(TaskData, "S1") :
         /\ r > existing_row[p]
         /\ TaskData[r] = RacedTaskRow(S("S1"))
    /\ TaskData[existing_row[p]] \in {row_vals[p], row_vals[q]}

====
